---- MODULE Spec2Model ----
(***************************************************************************)
(* Generation Gateway of the Virtual Herbal Garden: the Express handler    *)
(* app.post('/api/generate') and the serverless exports.handler.  One      *)
(* request is handled at a time; a handler runs synchronously up to the    *)
(* provider call, suspends there, and resumes when the provider call       *)
(* resolves or rejects.  JavaScript strings are sequences of one-character *)
(* strings, so includes(), toLowerCase() and trim() are computed.          *)
(***************************************************************************)
EXTENDS Naturals, Sequences, FiniteSets

VARIABLES handler, GoogleGenerativeAI, apiKey, httpMethod, body, pc,
          userMessage, outbound, providerResp, response

vars == <<handler, GoogleGenerativeAI, apiKey, httpMethod, body, pc,
          userMessage, outbound, providerResp, response>>

(* ------------------------------ bounds -------------------------------- *)
MaxWords == 2

(* ------------------------- string literals ---------------------------- *)
S_herbal_garden ==
  <<"h","e","r","b","a","l","-","g","a","r","d","e","n">>

S_other ==
  <<"o","t","h","e","r">>

S_neem ==
  <<"n","e","e","m">>

S_tulsi ==
  <<"t","u","l","s","i">>

S_mint ==
  <<"m","i","n","t">>

S_blank ==
  <<" "," ">>

W_Election ==
  <<"E","l","e","c","t","i","o","n">>

W_garden ==
  <<"g","a","r","d","e","n">>

W_herb ==
  <<"h","e","r","b">>

W_technology ==
  <<"t","e","c","h","n","o","l","o","g","y">>

W_stock ==
  <<"s","t","o","c","k">>

W_space ==
  <<" ">>

W_tulsi ==
  <<"t","u","l","s","i">>

K_plant ==
  <<"p","l","a","n","t">>

K_herb ==
  <<"h","e","r","b">>

K_garden ==
  <<"g","a","r","d","e","n">>

K_timeout ==
  <<"t","i","m","e","o","u","t">>

M_timeout ==
  <<"t","i","m","e","o","u","t"," ","o","f"," ","2","5","0","0","0","m","s"," ","e","x","c","e","e","d","e","d">>

M_Timeout ==
  <<"T","i","m","e","o","u","t"," ","a","w","a","i","t","i","n","g"," ","r","e","s","p","o","n","s","e">>

M_network ==
  <<"N","e","t","w","o","r","k"," ","E","r","r","o","r">>

M_trim ==
  <<"u","s","e","r","M","e","s","s","a","g","e",".","t","r","i","m"," ","i","s"," ","n","o","t"," ","a"," ","f","u","n","c","t","i","o","n">>

M_content ==
  <<"C","a","n","n","o","t"," ","r","e","a","d"," ","p","r","o","p","e","r","t","i","e","s"," ","o","f"," ","u","n","d","e","f","i","n","e","d"," ","(","r","e","a","d","i","n","g"," ","'","c","o","n","t","e","n","t","'",")">>

M_lower ==
  <<"r","e","p","l","y","T","e","x","t",".","t","o","L","o","w","e","r","C","a","s","e"," ","i","s"," ","n","o","t"," ","a"," ","f","u","n","c","t","i","o","n">>

M_unknown ==
  <<"U","n","k","n","o","w","n"," ","e","r","r","o","r">>

R_emptyBody ==
  <<"P","l","e","a","s","e"," ","p","r","o","v","i","d","e"," ","a"," ","v","a","l","i","d"," ","q","u","e","s","t","i","o","n"," ","a","b","o","u","t"," ","h","e","r","b","s"," ","o","r"," ","p","l","a","n","t","s",".">>

R_domain ==
  <<"I"," ","c","a","n"," ","o","n","l","y"," ","a","n","s","w","e","r"," ","q","u","e","s","t","i","o","n","s"," ","r","e","l","a","t","e","d"," ","t","o"," ","h","e","r","b","s",","," ","p","l","a","n","t","s",","," ","a","n","d"," ","g","a","r","d","e","n","i","n","g",".">>

R_noMessage ==
  <<"P","l","e","a","s","e"," ","a","s","k"," ","m","e"," ","a"," ","q","u","e","s","t","i","o","n"," ","a","b","o","u","t"," ","h","e","r","b","s"," ","o","r"," ","p","l","a","n","t","s","!">>

R_unavailable ==
  <<"S","e","r","v","i","c","e"," ","t","e","m","p","o","r","a","r","i","l","y"," ","u","n","a","v","a","i","l","a","b","l","e","."," ","P","l","e","a","s","e"," ","t","r","y"," ","a","g","a","i","n"," ","l","a","t","e","r",".">>

R_problem ==
  <<"I"," ","e","n","c","o","u","n","t","e","r","e","d"," ","a"," ","p","r","o","b","l","e","m"," ","p","r","o","c","e","s","s","i","n","g"," ","y","o","u","r"," ","r","e","q","u","e","s","t","."," ","P","l","e","a","s","e"," ","t","r","y"," ","a","g","a","i","n","!">>

R_trouble ==
  <<"I","'","m"," ","h","a","v","i","n","g"," ","t","r","o","u","b","l","e"," ","r","i","g","h","t"," ","n","o","w","."," ","P","l","e","a","s","e"," ","t","r","y"," ","a","s","k","i","n","g"," ","y","o","u","r"," ","q","u","e","s","t","i","o","n"," ","a","g","a","i","n","!">>

R_refusal ==
  <<"I"," ","c","a","n"," ","o","n","l","y"," ","a","n","s","w","e","r"," ","q","u","e","s","t","i","o","n","s"," ","r","e","l","a","t","e","d"," ","t","o"," ","h","e","r","b","s",","," ","p","l","a","n","t","s",","," ","a","n","d"," ","g","a","r","d","e","n","i","n","g","."," ","P","l","e","a","s","e"," ","a","s","k"," ","m","e"," ","a","b","o","u","t"," ","m","e","d","i","c","i","n","a","l"," ","p","l","a","n","t","s",","," ","g","r","o","w","i","n","g"," ","t","i","p","s",","," ","o","r"," ","n","a","t","u","r","a","l"," ","r","e","m","e","d","i","e","s","!">>

R_rephrase ==
  <<"I","'","m"," ","n","o","t"," ","s","u","r","e"," ","h","o","w"," ","t","o"," ","a","n","s","w","e","r"," ","t","h","a","t","."," ","C","o","u","l","d"," ","y","o","u"," ","r","e","p","h","r","a","s","e"," ","y","o","u","r"," ","q","u","e","s","t","i","o","n"," ","a","b","o","u","t"," ","h","e","r","b","s"," ","o","r"," ","p","l","a","n","t","s","?">>

R_rateLimit ==
  <<"I","'","m"," ","r","e","c","e","i","v","i","n","g"," ","t","o","o"," ","m","a","n","y"," ","r","e","q","u","e","s","t","s","."," ","P","l","e","a","s","e"," ","w","a","i","t"," ","a"," ","m","o","m","e","n","t"," ","a","n","d"," ","t","r","y"," ","a","g","a","i","n",".">>

R_auth ==
  <<"S","e","r","v","i","c","e"," ","c","o","n","f","i","g","u","r","a","t","i","o","n"," ","i","s","s","u","e","."," ","P","l","e","a","s","e"," ","c","o","n","t","a","c","t"," ","s","u","p","p","o","r","t",".">>

R_timeout ==
  <<"T","h","e"," ","r","e","q","u","e","s","t"," ","t","o","o","k"," ","t","o","o"," ","l","o","n","g","."," ","P","l","e","a","s","e"," ","t","r","y"," ","a"," ","s","i","m","p","l","e","r"," ","q","u","e","s","t","i","o","n",".">>

R_technical ==
  <<"S","o","r","r","y",","," ","I","'","m"," ","e","x","p","e","r","i","e","n","c","i","n","g"," ","t","e","c","h","n","i","c","a","l"," ","d","i","f","f","i","c","u","l","t","i","e","s","."," ","P","l","e","a","s","e"," ","t","r","y"," ","a","g","a","i","n"," ","i","n"," ","a"," ","m","o","m","e","n","t",".">>

offTopicKeywordsExpress ==
  <<<<"p","o","l","i","t","i","c","s">>,
    <<"e","l","e","c","t","i","o","n">>,
    <<"p","r","e","s","i","d","e","n","t">>,
    <<"g","o","v","e","r","n","m","e","n","t">>,
    <<"w","a","r">>,
    <<"m","i","l","i","t","a","r","y">>,
    <<"m","o","v","i","e">>,
    <<"f","i","l","m">>,
    <<"a","c","t","o","r">>,
    <<"s","p","o","r","t">>,
    <<"f","o","o","t","b","a","l","l">>,
    <<"c","r","i","c","k","e","t">>,
    <<"m","a","t","c","h">>,
    <<"p","r","o","g","r","a","m","m","i","n","g">>,
    <<"c","o","d","e">>,
    <<"s","o","f","t","w","a","r","e">>,
    <<"a","l","g","o","r","i","t","h","m">>,
    <<"j","a","v","a","s","c","r","i","p","t">>,
    <<"c","r","y","p","t","o","c","u","r","r","e","n","c","y">>,
    <<"b","i","t","c","o","i","n">>,
    <<"s","t","o","c","k">>,
    <<"i","n","v","e","s","t","m","e","n","t">>>>

offTopicKeywordsServerless ==
  <<<<"p","o","l","i","t","i","c","s">>,
    <<"e","l","e","c","t","i","o","n">>,
    <<"p","r","e","s","i","d","e","n","t">>,
    <<"w","a","r">>,
    <<"m","o","v","i","e">>,
    <<"s","p","o","r","t">>,
    <<"t","e","c","h","n","o","l","o","g","y">>,
    <<"p","r","o","g","r","a","m","m","i","n","g">>,
    <<"c","o","d","e">>>>

UpperToLower ==
  [c \in {"A","B","C","D","E","F","G","H","I","J","K","L","M","N","O","P","Q","R","S","T","U","V","W","X","Y","Z"} |->
    CASE c = "A" -> "a"
      [] c = "B" -> "b"
      [] c = "C" -> "c"
      [] c = "D" -> "d"
      [] c = "E" -> "e"
      [] c = "F" -> "f"
      [] c = "G" -> "g"
      [] c = "H" -> "h"
      [] c = "I" -> "i"
      [] c = "J" -> "j"
      [] c = "K" -> "k"
      [] c = "L" -> "l"
      [] c = "M" -> "m"
      [] c = "N" -> "n"
      [] c = "O" -> "o"
      [] c = "P" -> "p"
      [] c = "Q" -> "q"
      [] c = "R" -> "r"
      [] c = "S" -> "s"
      [] c = "T" -> "t"
      [] c = "U" -> "u"
      [] c = "V" -> "v"
      [] c = "W" -> "w"
      [] c = "X" -> "x"
      [] c = "Y" -> "y"
      [] c = "Z" -> "z"]

(* --------------------------- JS values -------------------------------- *)
\* A JavaScript value: undefined, a truthy non-string (a number such as 42),
\* or a string with its characters.
Undef == [t |-> "undefined", s |-> <<>>]

Num == [t |-> "number", s |-> <<>>]

Str(s) == [t |-> "string", s |-> s]

Truthy(v) == v.t = "number" \/ (v.t = "string" /\ v.s # <<>>)

IsString(v) == v.t = "string"

\* v || ''
OrEmpty(v) == IF Truthy(v) THEN v ELSE Str(<<>>)

Whitespace == {" ", "\t", "\n"}

RECURSIVE TrimStart(_)
TrimStart(s) ==
  IF s # <<>> /\ Head(s) \in Whitespace THEN TrimStart(Tail(s)) ELSE s

RECURSIVE TrimEnd(_)
TrimEnd(s) ==
  IF s # <<>> /\ s[Len(s)] \in Whitespace
    THEN TrimEnd(SubSeq(s, 1, Len(s) - 1)) ELSE s

\* String.prototype.trim
Trim(s) == TrimEnd(TrimStart(s))

\* String.prototype.toLowerCase
ToLowerCase(s) ==
  [i \in 1..Len(s) |->
     IF s[i] \in DOMAIN UpperToLower THEN UpperToLower[s[i]] ELSE s[i]]

\* String.prototype.includes
Includes(s, k) ==
  \E i \in 0..(Len(s) - Len(k)) : SubSeq(s, i + 1, i + Len(k)) = k

(* ------------------- request and provider structures ------------------ *)
\* parts: undefined or an array of { text }
NoParts == [t |-> "undefined", items |-> <<>>]

PartsOf(items) == [t |-> "array", items |-> items]

\* content: undefined or an object { parts }
NoContent == [t |-> "undefined", parts |-> NoParts]

ContentOf(parts) == [t |-> "object", parts |-> parts]

\* an array-valued field: undefined, a non-array object, or an array
NoArray == [t |-> "undefined", items |-> <<>>]

NonArray == [t |-> "object", items |-> <<>>]

ArrayOf(items) == [t |-> "array", items |-> items]

\* contents[0]?.parts?.[0]?.text
FirstPartText(contents) ==
  IF contents.t # "array" \/ Len(contents.items) = 0 THEN Undef
  ELSE LET parts == contents.items[1].parts IN
       IF parts.t # "array" \/ Len(parts.items) = 0 THEN Undef
       ELSE parts.items[1].text

PromptValues == {Undef, Num, Str(<<>>), Str(S_blank), Str(S_neem)}

MessageValues == {Undef, Num, Str(<<>>), Str(S_tulsi)}

ContentsValues ==
  {NoArray, NonArray, ArrayOf(<<>>), ArrayOf(<<[parts |-> NoParts]>>)}
  \cup {ArrayOf(<<[parts |-> PartsOf(<<[text |-> v]>>)]>>) :
          v \in {Num, Str(<<>>), Str(S_mint)}}

DomainValues == {Undef, Num, Str(<<>>), Str(S_other), Str(S_herbal_garden)}

\* req.body undefined (Express) / event.body absent or unparsable (serverless)
NoBody ==
  [present |-> FALSE, prompt |-> Undef, message |-> Undef,
   contents |-> NoArray, domain |-> Undef]

Bodies ==
  {NoBody} \cup
  [present : {TRUE}, prompt : PromptValues, message : MessageValues,
   contents : ContentsValues, domain : DomainValues]

\* words the provider's reply text is made of
Vocabulary ==
  {W_Election, W_garden, W_herb, W_technology, W_stock, W_space, W_tulsi}

RECURSIVE TextsUpTo(_)
TextsUpTo(n) ==
  IF n = 0 THEN {<<>>}
  ELSE LET prev == TextsUpTo(n - 1) IN
       prev \cup {t \o w : t \in prev, w \in Vocabulary}

ReplyTexts == TextsUpTo(MaxWords)

\* the first candidate of a provider response
CandidateValues ==
  {[content |-> NoContent],
   [content |-> ContentOf(NoParts)],
   [content |-> ContentOf(PartsOf(<<>>))]}
  \cup {[content |-> ContentOf(PartsOf(<<[text |-> v]>>))] :
          v \in {Undef, Num} \cup {Str(t) : t \in ReplyTexts}}

\* providerResp.data / await result.response
ProviderData ==
  {[isNull |-> TRUE, candidates |-> NoArray],
   [isNull |-> FALSE, candidates |-> NoArray],
   [isNull |-> FALSE, candidates |-> NonArray],
   [isNull |-> FALSE, candidates |-> ArrayOf(<<>>)]}
  \cup {[isNull |-> FALSE, candidates |-> ArrayOf(<<c>>)] :
          c \in CandidateValues}

\* a rejected provider call: err.response.status (0 when there is no
\* response), err.code ("" when undefined) and err.message
ProviderErrors ==
  [status : {0, 429, 401, 403, 500, 503},
   code : {"", "ECONNABORTED"},
   message : {Undef, Str(M_timeout), Str(M_Timeout), Str(M_network)}]

\* the outcome of the provider call of the current request
NoOutcome ==
  [kind |-> "none",
   data |-> [isNull |-> TRUE, candidates |-> NoArray],
   err |-> [status |-> 0, code |-> "", message |-> Undef]]

Resolved(data) == [NoOutcome EXCEPT !.kind = "resolved", !.data = data]

Rejected(err) == [NoOutcome EXCEPT !.kind = "rejected", !.err = err]

\* a TypeError thrown by the handler's own code
TypeError(msg) == [status |-> 0, code |-> "", message |-> Str(msg)]

(* ------------------------------ responses ----------------------------- *)
NoResponse ==
  [status |-> 0, fields |-> {}, error |-> "", reply |-> <<>>,
   message |-> <<>>, candidates |-> <<>>, content |-> NoContent]

\* res.status(status).json({ error, reply })
ErrorReply(status, error, reply) ==
  [NoResponse EXCEPT !.status = status, !.fields = {"error", "reply"},
                     !.error = error, !.reply = reply]

(* --------------------- Express: POST /api/generate -------------------- *)
\* mutant of ExpressUserMessage: message is looked at before prompt
ExpressUserMessage_MessageFirst(b) ==
  IF Truthy(b.message) /\ IsString(b.message) THEN b.message
  ELSE IF Truthy(b.prompt) /\ IsString(b.prompt) THEN b.prompt
  ELSE IF b.contents.t = "array" /\ Truthy(FirstPartText(b.contents))
    THEN FirstPartText(b.contents)
  ELSE Str(<<>>)

\* extraction precedence: prompt, message, contents[0].parts[0].text
ExpressUserMessage(b) ==
  IF Truthy(b.prompt) /\ IsString(b.prompt) THEN b.prompt
  ELSE IF Truthy(b.message) /\ IsString(b.message) THEN b.message
  ELSE IF b.contents.t = "array" /\ Truthy(FirstPartText(b.contents))
    THEN FirstPartText(b.contents)
  ELSE Str(<<>>)

\* the request payload: contents[0] carries the user message
ExpressPayload(msg) ==
  [contents |-> ArrayOf(<<[role |-> "user",
                           parts |-> PartsOf(<<[text |-> msg]>>)]>>)]

\* mutant of ExpressCatch: 403 is not taken for an authentication error
ExpressCatch_No403(err) ==
  IF err.status = 429
    THEN ErrorReply(429, "Rate limit exceeded", R_rateLimit)
  ELSE IF err.status = 401
    THEN ErrorReply(500, "Authentication error", R_auth)
  ELSE IF err.code = "ECONNABORTED"
          \/ (IsString(err.message) /\ Includes(err.message.s, K_timeout))
    THEN ErrorReply(504, "Request timeout", R_timeout)
  ELSE ErrorReply(500, "Internal server error", R_technical)

\* mutant of ExpressCatch: a timeout is recognised by err.code only
ExpressCatch_CodeOnly(err) ==
  IF err.status = 429
    THEN ErrorReply(429, "Rate limit exceeded", R_rateLimit)
  ELSE IF err.status = 401 \/ err.status = 403
    THEN ErrorReply(500, "Authentication error", R_auth)
  ELSE IF err.code = "ECONNABORTED"
    THEN ErrorReply(504, "Request timeout", R_timeout)
  ELSE ErrorReply(500, "Internal server error", R_technical)

\* the catch block: 429, then 401/403, then timeout, then generic
ExpressCatch(err) ==
  IF err.status = 429
    THEN ErrorReply(429, "Rate limit exceeded", R_rateLimit)
  ELSE IF err.status = 401 \/ err.status = 403
    THEN ErrorReply(500, "Authentication error", R_auth)
  ELSE IF err.code = "ECONNABORTED"
          \/ (IsString(err.message) /\ Includes(err.message.s, K_timeout))
    THEN ErrorReply(504, "Request timeout", R_timeout)
  ELSE ErrorReply(500, "Internal server error", R_technical)

\* mutant of ExpressInvalidResponse: the candidates.length check is missing
ExpressInvalidResponse_NoLength(responseData) ==
  \/ responseData.isNull
  \/ responseData.candidates.t = "undefined"

\* "Validate response structure": the condition under which 502 is sent
ExpressInvalidResponse(responseData) ==
  \/ responseData.isNull
  \/ responseData.candidates.t = "undefined"
  \/ /\ responseData.candidates.t = "array"
     /\ Len(responseData.candidates.items) = 0

\* "Extract reply text"
ExpressReplyText(candidate) ==
  IF /\ candidate.content.t = "object"
     /\ candidate.content.parts.t = "array"
     /\ Len(candidate.content.parts.items) > 0
    THEN OrEmpty(candidate.content.parts.items[1].text)
  ELSE Str(<<>>)

ExpressSeemsOffTopic(replyText) ==
  LET lowerReply == ToLowerCase(replyText) IN
  \E j \in 1..Len(offTopicKeywordsExpress) :
     /\ Includes(lowerReply, offTopicKeywordsExpress[j])
     /\ ~Includes(lowerReply, K_plant)
     /\ ~Includes(lowerReply, K_herb)
     /\ ~Includes(lowerReply, K_garden)

\* off-topic override, then the empty-response override
ExpressPostFilter(replyText) ==
  LET overridden == IF ExpressSeemsOffTopic(replyText) THEN R_refusal
                    ELSE replyText
  IN IF overridden = <<>> \/ Trim(overridden) = <<>> THEN R_rephrase
     ELSE overridden

\* res.json({ reply, candidates: [{ content: { parts: [{ text }] } }] })
ExpressSuccess(replyText) ==
  [NoResponse EXCEPT
     !.status = 200, !.fields = {"reply", "candidates"},
     !.reply = replyText,
     !.candidates =
        <<[content |-> ContentOf(PartsOf(<<[text |-> Str(replyText)]>>))]>>]

\* the handler after the provider call resolved with responseData
ExpressOnResolve(responseData) ==
  IF ExpressInvalidResponse(responseData)
    THEN ErrorReply(502, "Invalid AI response", R_problem)
  ELSE IF \/ responseData.candidates.t # "array"
          \/ Len(responseData.candidates.items) = 0
    \* candidates[0] is undefined: reading candidate.content throws
    THEN ExpressCatch(TypeError(M_content))
  ELSE LET candidate == responseData.candidates.items[1]
           replyText == ExpressReplyText(candidate)
       IN IF ~IsString(replyText)
            \* replyText.toLowerCase is not a function
            THEN ExpressCatch(TypeError(M_lower))
          ELSE ExpressSuccess(ExpressPostFilter(replyText.s))

\* mutant of ExpressValidate: the API key check is missing
ExpressValidate_NoKeyCheck(b, key) ==
  LET domain == OrEmpty(b.domain)
      msg == ExpressUserMessage(b)
      Answer(r) == [call |-> FALSE, response |-> r, userMessage |-> msg]
  IN IF ~b.present
       THEN [call |-> FALSE, userMessage |-> Str(<<>>),
             response |-> ErrorReply(400, "Empty request body", R_emptyBody)]
     ELSE IF domain # Str(S_herbal_garden)
       THEN Answer(ErrorReply(400, "Invalid domain", R_domain))
     ELSE IF ~Truthy(msg)
       THEN Answer(ErrorReply(400, "No message provided", R_noMessage))
     ELSE IF ~IsString(msg)
       THEN Answer(ExpressCatch(TypeError(M_trim)))
     ELSE IF Trim(msg.s) = <<>>
       THEN Answer(ErrorReply(400, "No message provided", R_noMessage))
     ELSE [call |-> TRUE, response |-> NoResponse, userMessage |-> msg]

\* mutant of ExpressValidate: a blank message is not rejected
ExpressValidate_NoBlankCheck(b, key) ==
  LET domain == OrEmpty(b.domain)
      msg == ExpressUserMessage(b)
      Answer(r) == [call |-> FALSE, response |-> r, userMessage |-> msg]
  IN IF ~b.present
       THEN [call |-> FALSE, userMessage |-> Str(<<>>),
             response |-> ErrorReply(400, "Empty request body", R_emptyBody)]
     ELSE IF domain # Str(S_herbal_garden)
       THEN Answer(ErrorReply(400, "Invalid domain", R_domain))
     ELSE IF ~Truthy(msg)
       THEN Answer(ErrorReply(400, "No message provided", R_noMessage))
     ELSE IF ~IsString(msg)
       THEN Answer(ExpressCatch(TypeError(M_trim)))
     ELSE IF ~key
       THEN Answer(ErrorReply(500, "Server misconfiguration", R_unavailable))
     ELSE [call |-> TRUE, response |-> NoResponse, userMessage |-> msg]

\* the handler up to the provider call: a response, or the payload to send
ExpressValidate(b, key) ==
  LET domain == OrEmpty(b.domain)
      msg == ExpressUserMessage(b)
      Answer(r) == [call |-> FALSE, response |-> r, userMessage |-> msg]
  IN IF ~b.present
       THEN [call |-> FALSE, userMessage |-> Str(<<>>),
             response |-> ErrorReply(400, "Empty request body", R_emptyBody)]
     ELSE IF domain # Str(S_herbal_garden)
       THEN Answer(ErrorReply(400, "Invalid domain", R_domain))
     ELSE IF ~Truthy(msg)
       THEN Answer(ErrorReply(400, "No message provided", R_noMessage))
     ELSE IF ~IsString(msg)
       \* userMessage.trim is not a function
       THEN Answer(ExpressCatch(TypeError(M_trim)))
     ELSE IF Trim(msg.s) = <<>>
       THEN Answer(ErrorReply(400, "No message provided", R_noMessage))
     ELSE IF ~key
       THEN Answer(ErrorReply(500, "Server misconfiguration", R_unavailable))
     ELSE [call |-> TRUE, response |-> NoResponse, userMessage |-> msg]

ExpressGenerate(b) ==
  /\ handler = "express"
  /\ pc = "idle"
  /\ LET v == ExpressValidate(b, apiKey) IN
       /\ userMessage' = v.userMessage
       /\ response' = v.response
       /\ pc' = IF v.call THEN "awaiting" ELSE "done"
       /\ outbound' = IF v.call THEN <<ExpressPayload(v.userMessage)>>
                      ELSE <<>>
  /\ body' = b
  /\ httpMethod' = "POST"
  /\ UNCHANGED <<handler, GoogleGenerativeAI, apiKey, providerResp>>

\* axios.post resolved
ExpressResolves(responseData) ==
  /\ handler = "express"
  /\ pc = "awaiting"
  /\ response' = ExpressOnResolve(responseData)
  /\ pc' = "done"
  /\ providerResp' = Resolved(responseData)
  /\ UNCHANGED <<handler, GoogleGenerativeAI, apiKey, httpMethod, body,
                 userMessage, outbound>>

\* mutant of ExpressRejects: the call is repeated with the bare contents
\* array as payload before the error is answered
ExpressRejects_Retry(err) ==
  /\ handler = "express"
  /\ pc = "awaiting"
  /\ outbound' = Append(outbound, outbound[1].contents)
  /\ response' = ExpressCatch(err)
  /\ pc' = "done"
  /\ providerResp' = Rejected(err)
  /\ UNCHANGED <<handler, GoogleGenerativeAI, apiKey, httpMethod, body,
                 userMessage>>

\* axios.post rejected
ExpressRejects(err) ==
  /\ handler = "express"
  /\ pc = "awaiting"
  /\ response' = ExpressCatch(err)
  /\ pc' = "done"
  /\ providerResp' = Rejected(err)
  /\ UNCHANGED <<handler, GoogleGenerativeAI, apiKey, httpMethod, body,
                 userMessage, outbound>>

(* --------------------- serverless: exports.handler -------------------- *)
ServerlessUserMessage(b) ==
  IF Truthy(b.prompt) /\ IsString(b.prompt) THEN b.prompt
  ELSE IF Truthy(b.message) /\ IsString(b.message) THEN b.message
  ELSE IF b.contents.t = "array" /\ Truthy(FirstPartText(b.contents))
    THEN FirstPartText(b.contents)
  ELSE Str(<<>>)

\* model.generateContent({ contents })
ServerlessPayload(msg) ==
  [contents |-> ArrayOf(<<[role |-> "user",
                           parts |-> PartsOf(<<[text |-> msg]>>)]>>)]

\* { statusCode: 204, headers, body: "" }
Preflight == [NoResponse EXCEPT !.status = 204]

\* { statusCode: 500, body: { error } } of the SDK and API key checks
ConfigError(error) ==
  [NoResponse EXCEPT !.status = 500, !.fields = {"error"}, !.error = error]

\* the catch block: always 500 with error, message and reply
ServerlessCatch(err) ==
  [NoResponse EXCEPT
     !.status = 500, !.fields = {"error", "message", "reply"},
     !.error = "Failed to get response from AI",
     !.message = IF Truthy(err.message) THEN err.message.s ELSE M_unknown,
     !.reply = R_technical]

\* "Validate response structure": the condition under which 502 is sent
ServerlessInvalidResponse(resp) ==
  \/ resp.isNull
  \/ resp.candidates.t = "undefined"
  \/ resp.candidates.t # "array"
  \/ Len(resp.candidates.items) = 0
  \/ resp.candidates.items[1].content.t = "undefined"

ServerlessReplyText(candidate) ==
  IF /\ candidate.content.t = "object"
     /\ candidate.content.parts.t = "array"
     /\ Len(candidate.content.parts.items) > 0
    THEN OrEmpty(candidate.content.parts.items[1].text)
  ELSE Str(<<>>)

ServerlessSeemsOffTopic(replyText) ==
  LET lowerReply == ToLowerCase(replyText) IN
  \E j \in 1..Len(offTopicKeywordsServerless) :
     /\ Includes(lowerReply, offTopicKeywordsServerless[j])
     /\ ~Includes(lowerReply, K_plant)
     /\ ~Includes(lowerReply, K_herb)

ServerlessPostFilter(replyText) ==
  IF ServerlessSeemsOffTopic(replyText) THEN R_refusal ELSE replyText

\* { statusCode: 200, body: { reply: replyText, content: candidate.content } }
ServerlessSuccess(replyText, candidate) ==
  [NoResponse EXCEPT
     !.status = 200, !.fields = {"reply", "content"},
     !.reply = replyText, !.content = candidate.content]

ServerlessOnResolve(resp) ==
  IF ServerlessInvalidResponse(resp)
    THEN ErrorReply(502, "AI provider returned invalid response", R_trouble)
  ELSE LET candidate == resp.candidates.items[1]
           replyText == ServerlessReplyText(candidate)
       IN IF ~IsString(replyText)
            \* replyText.toLowerCase is not a function
            THEN ServerlessCatch(TypeError(M_lower))
          ELSE ServerlessSuccess(ServerlessPostFilter(replyText.s), candidate)

\* the handler up to the provider call
ServerlessValidate(method, b, sdk, key) ==
  LET domain == OrEmpty(b.domain)
      msg == ServerlessUserMessage(b)
      Early(r) == [call |-> FALSE, response |-> r, userMessage |-> Str(<<>>)]
      Answer(r) == [call |-> FALSE, response |-> r, userMessage |-> msg]
  IN IF method = "OPTIONS" THEN Early(Preflight)
     ELSE IF ~sdk
       THEN Early(ConfigError("Server misconfiguration: missing SDK."))
     ELSE IF ~key
       THEN Early(ConfigError("Server misconfiguration: missing API key."))
     ELSE IF domain # Str(S_herbal_garden)
       THEN Answer(ErrorReply(400,
                     "Invalid request: domain parameter required", R_domain))
     ELSE IF ~Truthy(msg)
       THEN Answer(ErrorReply(400, "No message provided", R_noMessage))
     ELSE IF ~IsString(msg)
       \* userMessage.trim is not a function
       THEN Answer(ServerlessCatch(TypeError(M_trim)))
     ELSE IF Trim(msg.s) = <<>>
       THEN Answer(ErrorReply(400, "No message provided", R_noMessage))
     ELSE [call |-> TRUE, response |-> NoResponse, userMessage |-> msg]

ServerlessInvoke(method, b) ==
  /\ handler = "serverless"
  /\ pc = "idle"
  /\ LET v == ServerlessValidate(method, b, GoogleGenerativeAI, apiKey) IN
       /\ userMessage' = v.userMessage
       /\ response' = v.response
       /\ pc' = IF v.call THEN "awaiting" ELSE "done"
       /\ outbound' = IF v.call THEN <<ServerlessPayload(v.userMessage)>>
                      ELSE <<>>
  /\ body' = b
  /\ httpMethod' = method
  /\ UNCHANGED <<handler, GoogleGenerativeAI, apiKey, providerResp>>

\* model.generateContent and result.response resolved
ServerlessResolves(resp) ==
  /\ handler = "serverless"
  /\ pc = "awaiting"
  /\ response' = ServerlessOnResolve(resp)
  /\ pc' = "done"
  /\ providerResp' = Resolved(resp)
  /\ UNCHANGED <<handler, GoogleGenerativeAI, apiKey, httpMethod, body,
                 userMessage, outbound>>

\* model.generateContent rejected
ServerlessRejects(err) ==
  /\ handler = "serverless"
  /\ pc = "awaiting"
  /\ response' = ServerlessCatch(err)
  /\ pc' = "done"
  /\ providerResp' = Rejected(err)
  /\ UNCHANGED <<handler, GoogleGenerativeAI, apiKey, httpMethod, body,
                 userMessage, outbound>>

(* --------------------------- specification ---------------------------- *)
\* the response has been sent and the handler has returned: nothing of the
\* request is kept for the next one
Return ==
  /\ pc = "done"
  /\ pc' = "idle"
  /\ httpMethod' = "POST"
  /\ body' = NoBody
  /\ userMessage' = Str(<<>>)
  /\ outbound' = <<>>
  /\ providerResp' = NoOutcome
  /\ response' = NoResponse
  /\ UNCHANGED <<handler, GoogleGenerativeAI, apiKey>>

Init ==
  /\ handler \in {"express", "serverless"}
  /\ GoogleGenerativeAI \in (IF handler = "serverless" THEN BOOLEAN
                             ELSE {FALSE})
  /\ apiKey \in BOOLEAN
  /\ httpMethod = "POST"
  /\ body = NoBody
  /\ pc = "idle"
  /\ userMessage = Str(<<>>)
  /\ outbound = <<>>
  /\ providerResp = NoOutcome
  /\ response = NoResponse

Next ==
  \/ \E b \in Bodies : ExpressGenerate(b)
  \/ \E responseData \in ProviderData : ExpressResolves(responseData)
  \/ \E err \in ProviderErrors : ExpressRejects(err)
  \/ \E method \in {"POST", "OPTIONS"}, b \in Bodies :
        ServerlessInvoke(method, b)
  \/ \E resp \in ProviderData : ServerlessResolves(resp)
  \/ \E err \in ProviderErrors : ServerlessRejects(err)
  \/ Return

Spec == Init /\ [][Next]_vars

\* the Express provider call settles: axios.post resolves, or rejects at
\* the latest when its 25 s timeout expires
ExpressSettles ==
  \/ \E responseData \in ProviderData : ExpressResolves(responseData)
  \/ \E err \in ProviderErrors : ExpressRejects(err)

FairSpec == Spec /\ WF_vars(ExpressSettles)

TypeOK ==
  /\ handler \in {"express", "serverless"}
  /\ pc \in {"idle", "awaiting", "done"}
  /\ body \in Bodies
  /\ Len(outbound) \in 0..1
  /\ response.status \in {0, 200, 204, 400, 429, 500, 502, 504}

(* ------------------------------- claims ------------------------------- *)
\* a request field that holds a non-empty string
Usable(v) == v.t = "string" /\ v.s # <<>>

\* the text of the user message of the provider call that was made
SentText == FirstPartText(outbound[1].contents)

\* C1: whenever a provider call is made, its contents[0].parts[0].text is
\* prompt verbatim if prompt is a non-empty string; it is message only if
\* prompt is absent, non-string or empty; it is contents[0].parts[0].text
\* only if neither prompt nor message is a non-empty string.
C1_ExtractionPrecedence ==
  outbound # <<>> =>
    /\ Usable(body.prompt) => SentText = body.prompt
    /\ (~Usable(body.prompt) /\ Usable(body.message))
         => SentText = body.message
    /\ (~Usable(body.prompt) /\ ~Usable(body.message))
         => SentText = FirstPartText(body.contents)

\* a provider call was made for a body whose prompt, message and contents
\* all carry a different text
C1_Witness ==
  /\ outbound # <<>>
  /\ body.prompt = Str(S_neem)
  /\ body.message = Str(S_tulsi)
  /\ FirstPartText(body.contents) = Str(S_mint)
  /\ SentText = Str(S_neem)

\* the request carries a body and, in the serverless handler, the SDK and
\* the API key are there, so that the handler gets to look at the body
ReachesValidation ==
  /\ pc = "done" /\ httpMethod = "POST" /\ body.present
  /\ handler = "serverless" => (GoogleGenerativeAI /\ apiKey)

\* C2: every POST whose body domain is not exactly "herbal-garden" is
\* answered with status 400 and error "Invalid domain" (stated for the
\* requests whose body the handler gets to look at).
C2_DomainGate ==
  (ReachesValidation /\ body.domain # Str(S_herbal_garden))
    => (response.status = 400 /\ response.error = "Invalid domain")

\* the first of prompt, message, contents[0].parts[0].text that is usable
FirstUsable(b) ==
  IF Usable(b.prompt) THEN b.prompt
  ELSE IF Usable(b.message) THEN b.message
  ELSE FirstPartText(b.contents)

\* no text can be extracted from the body, or only whitespace
NoTextExtractable(b) ==
  ~Usable(FirstUsable(b)) \/ Trim(FirstUsable(b).s) = <<>>

\* C3: every POST with domain "herbal-garden" from which no text can be
\* extracted is answered with status 400 and error "No message provided"
\* (stated for the requests whose body the handler gets to look at).
C3_NoMessage ==
  (ReachesValidation
     /\ body.domain = Str(S_herbal_garden) /\ NoTextExtractable(body))
    => (response.status = 400 /\ response.error = "No message provided")

\* the provider response has no candidates, or an empty candidates array
MissingOrEmptyCandidates(data) ==
  \/ data.isNull
  \/ data.candidates.t = "undefined"
  \/ data.candidates.t = "array" /\ Len(data.candidates.items) = 0

\* C4: in the Express handler a provider response with missing or empty
\* candidates is answered with 502 and the fixed "problem processing" reply.
C4_EmptyCandidates502 ==
  (handler = "express" /\ pc = "done" /\ providerResp.kind = "resolved"
     /\ MissingOrEmptyCandidates(providerResp.data))
    => /\ response.status = 502
       /\ "reply" \in response.fields
       /\ response.reply = R_problem

\* the Express handler answered a response whose candidates array is empty
C4_Witness ==
  /\ handler = "express" /\ pc = "done"
  /\ providerResp.kind = "resolved"
  /\ providerResp.data.candidates = ArrayOf(<<>>)
  /\ response.status = 502

\* candidates is a non-empty array whose first element has no content
FirstCandidateWithoutContent(data) ==
  /\ ~data.isNull
  /\ data.candidates.t = "array"
  /\ Len(data.candidates.items) > 0
  /\ data.candidates.items[1].content.t = "undefined"

\* C5: a provider response whose first candidate has no content is answered
\* with 502 and a fallback reply, never with 200.
C5_MissingContentFailsClosed ==
  (pc = "done" /\ providerResp.kind = "resolved"
     /\ FirstCandidateWithoutContent(providerResp.data))
    => /\ response.status = 502
       /\ "reply" \in response.fields
       /\ response.reply # <<>>

\* the off-topic keyword list of the handler in use
offTopicKeywords ==
  IF handler = "express" THEN offTopicKeywordsExpress
  ELSE offTopicKeywordsServerless

\* text contains one of "plant", "herb", "garden", whatever the case
OnTopic(text) ==
  LET lower == ToLowerCase(text) IN
  Includes(lower, K_plant) \/ Includes(lower, K_herb)
    \/ Includes(lower, K_garden)

\* text contains an off-topic keyword and none of "plant", "herb", "garden"
OffTopic(text) ==
  /\ ~OnTopic(text)
  /\ \E j \in 1..Len(offTopicKeywords) :
        Includes(ToLowerCase(text), offTopicKeywords[j])

\* candidates[0].content.parts[0].text of a provider response, "" if absent
ProviderText(data) ==
  LET text == FirstPartText([t |-> "array",
                items |-> <<data.candidates.items[1].content>>])
  IN IF IsString(text) THEN text.s ELSE <<>>

\* C6: the reply of a 200 response is the refusal string if the provider
\* text is off-topic, the rephrase string if it is empty or blank, and the
\* provider text unchanged otherwise.
C6_PostFilter ==
  (pc = "done" /\ response.status = 200)
    => LET text == ProviderText(providerResp.data) IN
       response.reply =
         IF OffTopic(text) THEN R_refusal
         ELSE IF Trim(text) = <<>> THEN R_rephrase
         ELSE text

\* every text returned in the body of the response
ReturnedTexts ==
  (IF "reply" \in response.fields THEN {response.reply} ELSE {})
  \cup (IF "candidates" \in response.fields
          THEN {response.candidates[i].content.parts.items[j].text.s :
                  i \in 1..Len(response.candidates),
                  j \in 1..Len(response.candidates[1].content.parts.items)}
          ELSE {})
  \cup (IF "content" \in response.fields
          THEN {response.content.parts.items[j].text.s :
                  j \in 1..Len(response.content.parts.items)}
          ELSE {})

\* C7: no text of a 200 response body contains an off-topic keyword
\* without "plant", "herb" or "garden".
C7_NoOffTopicLeak ==
  (pc = "done" /\ response.status = 200)
    => \A text \in ReturnedTexts : ~OffTopic(text)

\* C8: a 200 response body is { reply, candidates } and
\* candidates[0].content.parts[0].text equals reply.
C8_NormalizedReply ==
  (pc = "done" /\ response.status = 200)
    => /\ response.fields = {"reply", "candidates"}
       /\ Len(response.candidates) = 1
       /\ FirstPartText(ArrayOf(<<response.candidates[1].content>>))
            = Str(response.reply)

\* C9: every response other than 200 and 204 carries a non-empty reply.
C9_FailureHasReply ==
  (pc = "done" /\ response.status \notin {200, 204})
    => ("reply" \in response.fields /\ response.reply # <<>>)

\* the provider call failed by timeout, with no 429, 401 or 403 attached
TimedOut(err) ==
  /\ err.status \notin {429, 401, 403}
  /\ \/ err.code = "ECONNABORTED"
     \/ IsString(err.message) /\ Includes(err.message.s, K_timeout)

\* C10: in the Express handler a provider call that fails by timeout is
\* answered with 504 and the "try a simpler question" reply, and exactly
\* one provider call was made for the request.
C10_Timeout504 ==
  (handler = "express" /\ pc = "done" /\ providerResp.kind = "rejected"
     /\ TimedOut(providerResp.err))
    => /\ response.status = 504
       /\ response.reply = R_timeout
       /\ Len(outbound) = 1

\* a timeout known only by its message was answered with 504
C10_Witness ==
  /\ handler = "express" /\ pc = "done"
  /\ providerResp.kind = "rejected"
  /\ providerResp.err.code = ""
  /\ providerResp.err.message = Str(M_timeout)
  /\ providerResp.err.status = 0
  /\ response.status = 504

\* C11: in the Express handler every failed provider call is classified:
\* provider status 429 gives 429 "Rate limit exceeded", 401 or 403 gives 500
\* "Authentication error", a failure that is none of these nor a timeout
\* gives 500 "Internal server error"; the body holds only a fixed error and
\* a fixed reply, nothing of the provider's error.
C11_ErrorClassification ==
  (handler = "express" /\ pc = "done" /\ providerResp.kind = "rejected")
    => LET err == providerResp.err IN
       /\ err.status = 429
            => (response.status = 429
                  /\ response.error = "Rate limit exceeded")
       /\ err.status \in {401, 403}
            => (response.status = 500
                  /\ response.error = "Authentication error")
       /\ (err.status \notin {429, 401, 403} /\ ~TimedOut(err))
            => (response.status = 500
                  /\ response.error = "Internal server error")
       /\ response.status \in {429, 500, 504}
       /\ response.fields = {"error", "reply"}
       /\ response.reply \in {R_rateLimit, R_auth, R_timeout, R_technical}

\* a provider 403 that also looks like a timeout was answered as an
\* authentication error
C11_Witness ==
  /\ handler = "express" /\ pc = "done"
  /\ providerResp.kind = "rejected"
  /\ providerResp.err.status = 403
  /\ providerResp.err.code = "ECONNABORTED"
  /\ response.status = 500
  /\ response.error = "Authentication error"

\* the API key is not configured or, in the serverless handler, the SDK is
\* unavailable
MissingConfiguration ==
  ~apiKey \/ (handler = "serverless" /\ ~GoogleGenerativeAI)

\* the body is there, its domain is "herbal-garden" and a non-blank text
\* can be extracted from it
PassesChecks(b) ==
  b.present /\ b.domain = Str(S_herbal_garden) /\ ~NoTextExtractable(b)

Wrapped(payload) == "contents" \in DOMAIN payload

ProviderCallGated ==
  /\ Len(outbound) <= 1
  /\ outbound # <<>>
       => /\ PassesChecks(body)
          /\ apiKey
          /\ handler = "serverless" => GoogleGenerativeAI
  /\ (pc = "done"
        /\ (response.status = 400
              \/ response.error \in
                   {"Server misconfiguration",
                    "Server misconfiguration: missing API key."}))
       => (outbound = <<>> /\ providerResp.kind = "none")
  /\ pc = "done" <=> response # NoResponse

\* C14: the provider is called only after the body, domain, non-blank
\* message and API key checks have passed, and at most once per request;
\* a request answered with 400 or with the missing-API-key 500 made no
\* call; a response is sent exactly when the handler ends, it is not
\* followed by a second one, and an Express request suspended at the
\* provider call does end with a response.
C14_GatedSingleCall ==
  /\ []ProviderCallGated
  /\ [][response # NoResponse => (response' = NoResponse /\ pc' = "idle")]_vars
  /\ (handler = "express" /\ pc = "awaiting") ~> (pc = "done")

\* a request that passed every check made its one provider call and was
\* answered with 200
C14_Witness ==
  /\ pc = "done" /\ PassesChecks(body) /\ apiKey
  /\ Len(outbound) = 1
  /\ providerResp.kind = "resolved"
  /\ response.status = 200

====
